---- MODULE Spec2Model ----
(***************************************************************************)
(* A model of the typed key-value accessors of CBaseEntityWrapper          *)
(* (entities_entity.h) and of the SendTable / SendPropVariant bindings     *)
(* (entities_props_wrap_python.cpp) of Source.Python.                      *)
(*                                                                         *)
(* Text is a sequence of one-character strings; the end of the sequence    *)
(* plays the part of the terminating NUL of a C string.                    *)
(***************************************************************************)
EXTENDS Integers, Sequences, FiniteSets, TLC

VARIABLES
    store,    \* the engine's field store: the entities' fields and the string pool
    last,     \* the record of the last call made by the script
    pc,       \* position of a scripted sequence of calls
    first,    \* the record of the first call of a scripted sequence
    snap,     \* the field store as it was before the write of a scripted sequence
    variant,  \* one DVariant (SendPropVariant)
    table     \* one SendTable

vars == <<store, last, pc, first, snap, variant, table>>

-----------------------------------------------------------------------------
(* Bounds and program constants *)

\* Capacity of the buffer handed to the engine's GetKeyValue.
MAX_KEY_VALUE_LENGTH == 1024

\* Length of the long sample text (longer than the key-value buffer).
LongLen == 1030

\* Largest number of props of a modelled SendTable.
MaxProps == 3

\* Mutant of ColorBufSize: a buffer one byte too short.
ColorBufSize_15 == 16 - 1

\* sizeof(string) in SetKeyValueColor.
ColorBufSize == 16

-----------------------------------------------------------------------------
(* Text helpers *)

Min(a, b) == IF a < b THEN a ELSE b

Digits == {"0", "1", "2", "3", "4", "5", "6", "7", "8", "9"}

DigitVal(c) ==
    CASE c = "0" -> 0 [] c = "1" -> 1 [] c = "2" -> 2 [] c = "3" -> 3
      [] c = "4" -> 4 [] c = "5" -> 5 [] c = "6" -> 6 [] c = "7" -> 7
      [] c = "8" -> 8 [] c = "9" -> 9

DigitChar(d) ==
    CASE d = 0 -> "0" [] d = 1 -> "1" [] d = 2 -> "2" [] d = 3 -> "3"
      [] d = 4 -> "4" [] d = 5 -> "5" [] d = 6 -> "6" [] d = 7 -> "7"
      [] d = 8 -> "8" [] d = 9 -> "9"

\* Characters Python strips around a number, and C's (*p <= ' ').
IsSpace(c) == c \in {" ", "\t", "\n", "\r"}

\* What a copy into a buffer of cap bytes keeps: cap - 1 characters and a NUL.
Trunc(s, cap) == SubSeq(s, 1, Min(Len(s), cap - 1))

RECURSIVE SplitAt(_, _, _)
SplitAt(s, sep, cur) ==
    IF s = <<>> THEN <<cur>>
    ELSE IF Head(s) = sep THEN <<cur>> \o SplitAt(Tail(s), sep, <<>>)
    ELSE SplitAt(Tail(s), sep, Append(cur, Head(s)))

\* Python's x.split(sep): cuts at every single occurrence of sep.
PySplit(s, sep) == SplitAt(s, sep, <<>>)

RECURSIVE LStrip(_)
LStrip(s) == IF s # <<>> /\ IsSpace(Head(s)) THEN LStrip(Tail(s)) ELSE s

RECURSIVE RStrip(_)
RStrip(s) ==
    IF s # <<>> /\ IsSpace(s[Len(s)]) THEN RStrip(SubSeq(s, 1, Len(s) - 1)) ELSE s

PyStrip(s) == RStrip(LStrip(s))

AllDigits(d) == d # <<>> /\ \A i \in 1..Len(d) : d[i] \in Digits

RECURSIVE DecVal(_)
DecVal(d) ==
    IF d = <<>> THEN 0
    ELSE DecVal(SubSeq(d, 1, Len(d) - 1)) * 10 + DigitVal(d[Len(d)])

\* Python's int(x) on the modelled alphabet: surrounding whitespace is
\* stripped, one sign is allowed, then one or more decimal digits.
PyInt(s) ==
    LET t == PyStrip(s)
        signed == t # <<>> /\ t[1] \in {"+", "-"}
        d == IF signed THEN Tail(t) ELSE t
    IN  IF AllDigits(d)
        THEN [ok |-> TRUE,
              v  |-> IF signed /\ t[1] = "-" THEN 0 - DecVal(d) ELSE DecVal(d)]
        ELSE [ok |-> FALSE, v |-> 0]

RECURSIVE FloatNorm(_, _)
FloatNorm(m, e) ==
    IF e > 0 /\ m % 10 = 0 THEN FloatNorm(m \div 10, e - 1) ELSE [m |-> m, e |-> e]

\* A decimal number as [m, e]: m / 10^e, without trailing zeros ("1.0" is "1").
\* [sign] digits [ "." digits ] with at least one digit.
DecFloat(t) ==
    LET signed == t # <<>> /\ t[1] \in {"+", "-"}
        neg == signed /\ t[1] = "-"
        d == IF signed THEN Tail(t) ELSE t
        parts == PySplit(d, ".")
        ip == parts[1]
        fp == IF Len(parts) = 2 THEN parts[2] ELSE <<>>
        wellFormed ==
            /\ Len(parts) \in {1, 2}
            /\ \A i \in 1..Len(ip) : ip[i] \in Digits
            /\ \A i \in 1..Len(fp) : fp[i] \in Digits
            /\ Len(ip) + Len(fp) > 0
        n == FloatNorm(DecVal(ip \o fp), Len(fp))
    IN  IF wellFormed
        THEN [ok |-> TRUE, v |-> [m |-> IF neg THEN 0 - n.m ELSE n.m, e |-> n.e]]
        ELSE [ok |-> FALSE, v |-> [m |-> 0, e |-> 0]]

\* Python's float(x) on the modelled alphabet.
PyFloat(s) == DecFloat(PyStrip(s))

RECURSIVE IntToStr(_)
\* printf's %i.
IntToStr(n) ==
    IF n < 0 THEN <<"-">> \o IntToStr(0 - n)
    ELSE IF n < 10 THEN <<DigitChar(n)>>
    ELSE Append(IntToStr(n \div 10), DigitChar(n % 10))

RECURSIVE strcmp(_, _)
\* C's strcmp: 0 when the two strings are equal, nonzero (here 1) otherwise.
strcmp(a, b) ==
    IF a = <<>> /\ b = <<>> THEN 0
    ELSE IF a = <<>> \/ b = <<>> THEN 1
    ELSE IF Head(a) # Head(b) THEN 1
    ELSE strcmp(Tail(a), Tail(b))

\* strncmp limited to the first n characters.
strncmp(a, b, n) == strcmp(SubSeq(a, 1, Min(Len(a), n)), SubSeq(b, 1, Min(Len(b), n)))

-----------------------------------------------------------------------------
(* Values and errors crossing the binding *)

Val(t, v) == [t |-> t, v |-> v]

\* What a call that raised returns: nothing.
NoValue == [t |-> "none", v |-> 0]

\* What a void function returns to the script.
PyNone == [t |-> "None", v |-> 0]

NoError == [kind |-> "none", name |-> "", cls |-> ""]

\* BOOST_RAISE_EXCEPTION: sets the Python error and throws, so nothing after
\* it in the function runs and the call returns no value.
BOOST_RAISE_EXCEPTION(kind, name, cls) ==
    [err |-> [kind |-> kind, name |-> name, cls |-> cls], val |-> NoValue]

Return(v) == [err |-> NoError, val |-> v]

-----------------------------------------------------------------------------
(* The engine's field store (servertools) *)

Entities == {"e1", "e2"}

\* GetDataDescMap()->dataClassName
ClassOf(e) == IF e = "e1" THEN "CDynamicProp" ELSE "CInfoTarget"

Schema(cls) ==
    IF cls = "CDynamicProp" THEN {"model", "rendercolor"} ELSE {"targetname"}

\* The field names scripts ask for.
Names == {"model", "rendercolor", "targetname", "nosuchkey"}

\* A field of type string_t holds a reference into the engine's pool of
\* interned strings; any other field holds its text inline.
SlotKind(name) == IF name = "model" THEN "string_t" ELSE "text"

\* The text of a field as the engine holds it.
FieldText(st, e, name) ==
    IF st.ent[e][name].kind = "string_t"
    THEN st.pool[st.ent[e][name].ref]
    ELSE st.ent[e][name].text

\* The buffer as GetKeyValue leaves it when it reports failure.
UninitBuf == [kind |-> "uninit", text |-> <<>>, ref |-> 0]

\* servertools->GetKeyValue(pEntity, szName, szResult, cap): a text field is
\* copied into the buffer, a string_t field leaves its reference there.
EngineGetKeyValue(st, e, name, cap) ==
    IF name \notin DOMAIN st.ent[e]
    THEN [ok |-> FALSE, buf |-> UninitBuf]
    ELSE IF st.ent[e][name].kind = "string_t"
    THEN [ok |-> TRUE,
          buf |-> [kind |-> "string_t", text |-> <<>>, ref |-> st.ent[e][name].ref]]
    ELSE [ok |-> TRUE,
          buf |-> [kind |-> "text", text |-> Trunc(st.ent[e][name].text, cap), ref |-> 0]]

\* The pool entry of a text: the one it has, or a new one.
PoolIndex(pool, text) ==
    IF \E i \in 1..Len(pool) : pool[i] = text
    THEN CHOOSE i \in 1..Len(pool) : pool[i] = text
    ELSE Len(pool) + 1

\* servertools->SetKeyValue(pEntity, szName, value)
EngineSetKeyValue(st, e, name, text) ==
    IF name \notin DOMAIN st.ent[e]
    THEN [ok |-> FALSE, store |-> st]
    ELSE IF SlotKind(name) = "string_t"
    THEN LET i == PoolIndex(st.pool, text)
         IN  [ok |-> TRUE,
              store |-> [ent |-> [st.ent EXCEPT ![e] = [@ EXCEPT ![name] =
                                    [kind |-> "string_t", text |-> <<>>, ref |-> i]]],
                         pool |-> IF i > Len(st.pool) THEN Append(st.pool, text)
                                  ELSE st.pool]]
    ELSE [ok |-> TRUE,
          store |-> [ent |-> [st.ent EXCEPT ![e] = [@ EXCEPT ![name] =
                                [kind |-> "text", text |-> text, ref |-> 0]]],
                     pool |-> st.pool]]

\* The bytes of a reference read as characters: not the referenced text.
PtrBytes(ref) == <<"@">> \o IntToStr(ref)

\* str(szResult): the buffer read as a NUL-terminated string.
BufText(buf) == IF buf.kind = "text" THEN buf.text ELSE PtrBytes(buf.ref)

\* *(char **) szResult: the buffer's first bytes followed as a reference.
Deref(st, buf) ==
    IF buf.kind = "string_t" /\ buf.ref \in 1..Len(st.pool)
    THEN st.pool[buf.ref]
    ELSE PtrBytes(buf.ref)

EngineCall(fn, e, name, value, ret) ==
    [fn |-> fn, ent |-> e, name |-> name, value |-> value, ret |-> ret]

-----------------------------------------------------------------------------
(* CBaseEntityWrapper: the typed key-value accessors *)

WithCalls(res, calls) == [err |-> res.err, val |-> res.val, calls |-> calls]

\* An exception raised by the embedded interpreter itself.
PyRaise(kind) == BOOST_RAISE_EXCEPTION(kind, "", "")

IsError(res) == res.err.kind # "none"

\* Mutant of GetKeyValueString: the engine's answer is not looked at.
GetKeyValueString_NoCheck(st, e, name) ==
    LET r == EngineGetKeyValue(st, e, name, MAX_KEY_VALUE_LENGTH)
        calls == <<EngineCall("GetKeyValue", e, name, NoValue, r.ok)>>
    IN  IF name = "model"
        THEN WithCalls(Return(Val("str", Deref(st, r.buf))), calls)
        ELSE WithCalls(Return(Val("str", BufText(r.buf))), calls)

\* Mutant of GetKeyValueString: no special case for the field "model".
GetKeyValueString_NoDeref(st, e, name) ==
    LET r == EngineGetKeyValue(st, e, name, MAX_KEY_VALUE_LENGTH)
        calls == <<EngineCall("GetKeyValue", e, name, NoValue, r.ok)>>
    IN  IF ~r.ok
        THEN WithCalls(BOOST_RAISE_EXCEPTION("NameError", name, ClassOf(e)), calls)
        ELSE WithCalls(Return(Val("str", BufText(r.buf))), calls)

GetKeyValueString(st, e, name) ==
    LET r == EngineGetKeyValue(st, e, name, MAX_KEY_VALUE_LENGTH)
        calls == <<EngineCall("GetKeyValue", e, name, NoValue, r.ok)>>
    IN  IF ~r.ok
        THEN WithCalls(BOOST_RAISE_EXCEPTION("NameError", name, ClassOf(e)), calls)
        ELSE IF name = "model"
        THEN WithCalls(Return(Val("str", Deref(st, r.buf))), calls)
        ELSE WithCalls(Return(Val("str", BufText(r.buf))), calls)

\* extract<int>: a Python int that does not fit a C int is refused.
FitsInt(v) == v >= (0 - 2147483647) - 1 /\ v <= 2147483647

GetKeyValueInt(st, e, name) ==
    LET s == GetKeyValueString(st, e, name)
        p == PyInt(s.val.v)
    IN  IF IsError(s) THEN s
        ELSE IF ~p.ok THEN WithCalls(PyRaise("ValueError"), s.calls)
        ELSE IF ~FitsInt(p.v) THEN WithCalls(PyRaise("OverflowError"), s.calls)
        ELSE WithCalls(Return(Val("int", p.v)), s.calls)

GetKeyValueFloat(st, e, name) ==
    LET s == GetKeyValueString(st, e, name)
        p == PyFloat(s.val.v)
    IN  IF IsError(s) THEN s
        ELSE IF ~p.ok THEN WithCalls(PyRaise("ValueError"), s.calls)
        ELSE WithCalls(Return(Val("float", p.v)), s.calls)

\* Mutant of GetKeyValueBool: only the first character is compared.
GetKeyValueBool_Prefix(st, e, name) ==
    LET s == GetKeyValueString(st, e, name)
    IN  IF IsError(s) THEN s
        ELSE WithCalls(Return(Val("bool", strncmp(s.val.v, <<"1">>, 1) = 0)), s.calls)

GetKeyValueBool(st, e, name) ==
    LET s == GetKeyValueString(st, e, name)
    IN  IF IsError(s) THEN s
        ELSE WithCalls(Return(Val("bool", strcmp(s.val.v, <<"1">>) = 0)), s.calls)

\* Color(r, g, b, a): each component is stored in an unsigned char.
Color(r, g, b, a) == <<r % 256, g % 256, b % 256, a % 256>>

\* eval("lambda x: tuple(map(int, x.split(' ')))")
PyColorTuple(text) ==
    LET toks == PySplit(text, " ")
    IN  IF \E i \in 1..Len(toks) : ~PyInt(toks[i]).ok
        THEN [ok |-> FALSE, v |-> <<>>]
        ELSE [ok |-> TRUE, v |-> [i \in 1..Len(toks) |-> PyInt(toks[i]).v]]

GetKeyValueColor(st, e, name) ==
    LET s == GetKeyValueString(st, e, name)
        c == PyColorTuple(s.val.v)
    IN  IF IsError(s) THEN s
        ELSE IF ~c.ok THEN WithCalls(PyRaise("ValueError"), s.calls)
        ELSE IF Len(c.v) < 4 THEN WithCalls(PyRaise("IndexError"), s.calls)
        ELSE IF \E i \in 1..4 : ~FitsInt(c.v[i])
        THEN WithCalls(PyRaise("OverflowError"), s.calls)
        ELSE WithCalls(Return(Val("Color", Color(c.v[1], c.v[2], c.v[3], c.v[4]))),
                       s.calls)

\* The whitespace-separated tokens of a text.
RECURSIVE Tokens(_, _)
Tokens(s, cur) ==
    IF s = <<>> THEN (IF cur = <<>> THEN <<>> ELSE <<cur>>)
    ELSE IF IsSpace(Head(s))
    THEN (IF cur = <<>> THEN <<>> ELSE <<cur>>) \o Tokens(Tail(s), <<>>)
    ELSE Tokens(Tail(s), Append(cur, Head(s)))

\* sputils::UTIL_StringToFloatArray(fResult, count, szResult): fills fResult
\* from the first count tokens; false when fewer than count tokens parse.
UTIL_StringToFloatArray(count, text) ==
    LET toks == Tokens(text, <<>>)
        n == Min(Len(toks), count)
        good == {i \in 1..n : DecFloat(toks[i]).ok}
    IN  IF Cardinality(good) < count
        THEN [ok |-> FALSE, v |-> <<>>]
        ELSE [ok |-> TRUE, v |-> [i \in 1..count |-> DecFloat(toks[i]).v]]

\* Mutant of GetKeyValueVector: the parser's answer is not looked at.
GetKeyValueVector_NoFormatCheck(st, e, name) ==
    LET r == EngineGetKeyValue(st, e, name, MAX_KEY_VALUE_LENGTH)
        calls == <<EngineCall("GetKeyValue", e, name, NoValue, r.ok)>>
        f == UTIL_StringToFloatArray(3, BufText(r.buf))
    IN  IF ~r.ok
        THEN WithCalls(BOOST_RAISE_EXCEPTION("NameError", name, ClassOf(e)), calls)
        ELSE WithCalls(Return(Val("Vector", f.v)), calls)

GetKeyValueVector(st, e, name) ==
    LET r == EngineGetKeyValue(st, e, name, MAX_KEY_VALUE_LENGTH)
        calls == <<EngineCall("GetKeyValue", e, name, NoValue, r.ok)>>
        f == UTIL_StringToFloatArray(3, BufText(r.buf))
    IN  IF ~r.ok
        THEN WithCalls(BOOST_RAISE_EXCEPTION("NameError", name, ClassOf(e)), calls)
        ELSE IF ~f.ok
        THEN WithCalls(PyRaise("ValueError"), calls)
        ELSE WithCalls(Return(Val("Vector", f.v)), calls)

\* Mutant of SetKeyValue: the engine's answer is not looked at.
SetKeyValue_NoCheck(st, e, name, value) ==
    LET r == EngineSetKeyValue(st, e, name, value)
        calls == <<EngineCall("SetKeyValue", e, name, Val("str", value), r.ok)>>
    IN  [err |-> NoError, val |-> PyNone, calls |-> calls, store |-> r.store]

SetKeyValue(st, e, name, value) ==
    LET r == EngineSetKeyValue(st, e, name, value)
        calls == <<EngineCall("SetKeyValue", e, name, Val("str", value), r.ok)>>
        res == IF ~r.ok
               THEN BOOST_RAISE_EXCEPTION("NameError", name, ClassOf(e))
               ELSE Return(PyNone)
    IN  [err |-> res.err, val |-> res.val, calls |-> calls, store |-> r.store]

\* The text "%i %i %i %i" produces.
FormatColor(c) ==
    IntToStr(c[1]) \o <<" ">> \o IntToStr(c[2]) \o <<" ">>
        \o IntToStr(c[3]) \o <<" ">> \o IntToStr(c[4])

\* Q_snprintf(string, sizeof(string), "%i %i %i %i", ...)
Q_snprintf(size, c) == Trunc(FormatColor(c), size)

SetKeyValueColor(st, e, name, c) ==
    SetKeyValue(st, e, name, Q_snprintf(ColorBufSize, c))

-----------------------------------------------------------------------------
(* Sample texts *)

T_1 == <<"1">>
T_0 == <<"0">>
T_empty == <<>>
T_true == <<"t", "r", "u", "e">>
T_1sp == <<"1", " ">>
T_01 == <<"0", "1">>
T_color4 == <<"2","5","5"," ","0"," ","1","2","8"," ","2","5","5">>
T_color3 == <<"2","5","5"," ","0"," ","1","2","8">>
T_color5 == <<"1"," ","2"," ","3"," ","4"," ","5">>
T_color256 == <<"2","5","6"," ","0"," ","0"," ","0">>
T_colorA == <<"a"," ","0"," ","0"," ","0">>
T_vec3 == <<"1",".","0"," ","2",".","0"," ","3",".","0">>
T_vec2 == <<"1",".","0"," ","2",".","0">>
T_white == <<"2","5","5"," ","2","5","5"," ","2","5","5"," ","2","5","5">>
T_long == [i \in 1..LongLen |-> "a"]

\* The texts a field may hold when the script starts.
Samples ==
    {T_1, T_0, T_empty, T_true, T_1sp, T_01, T_color4, T_color3, T_color5,
     T_color256, T_colorA, T_vec3, T_vec2}

\* The texts and colours the script writes.
WriteVals == {T_white}
Colors == {<<255, 255, 255, 255>>}

-----------------------------------------------------------------------------
(* The script's calls *)

CallRecord(op, e, name, arg, res) ==
    [op |-> op, ent |-> e, name |-> name, arg |-> arg,
     calls |-> res.calls, err |-> res.err, val |-> res.val]

NoCall ==
    [op |-> "none", ent |-> "", name |-> "", arg |-> NoValue,
     calls |-> <<>>, err |-> NoError, val |-> NoValue]

\* The store in which "model" refers to the text a, "rendercolor" holds b
\* and "targetname" holds c.
InitialStore(a, b, c) ==
    [ent |-> [e \in Entities |->
                [n \in Schema(ClassOf(e)) |->
                    IF SlotKind(n) = "string_t"
                    THEN [kind |-> "string_t", text |-> <<>>, ref |-> 1]
                    ELSE [kind |-> "text", text |-> IF n = "rendercolor" THEN b ELSE c,
                          ref |-> 0]]],
     pool |-> <<a>>]

UniformStore(t) == InitialStore(t, t, t)

\* A default-constructed DVariant and an empty table, for the runs that do not
\* use them.
IdleVariant == [m_Type |-> "Float", member |-> "m_Float", v |-> 0]
IdleTable == [m_pProps |-> <<>>, m_nProps |-> 0]

Init ==
    /\ \E t \in Samples : store = UniformStore(t)
    /\ last = NoCall
    /\ pc = "idle"
    /\ first = NoCall
    /\ snap = UniformStore(T_empty)
    /\ variant = IdleVariant
    /\ table = IdleTable

Rest == <<pc, first, snap, variant, table>>

GetString(e, name) ==
    /\ last' = CallRecord("getString", e, name, NoValue, GetKeyValueString(store, e, name))
    /\ UNCHANGED <<store, Rest>>

GetInt(e, name) ==
    /\ last' = CallRecord("getInt", e, name, NoValue, GetKeyValueInt(store, e, name))
    /\ UNCHANGED <<store, Rest>>

GetFloat(e, name) ==
    /\ last' = CallRecord("getFloat", e, name, NoValue, GetKeyValueFloat(store, e, name))
    /\ UNCHANGED <<store, Rest>>

GetBool(e, name) ==
    /\ last' = CallRecord("getBool", e, name, NoValue, GetKeyValueBool(store, e, name))
    /\ UNCHANGED <<store, Rest>>

GetVector(e, name) ==
    /\ last' = CallRecord("getVector3", e, name, NoValue, GetKeyValueVector(store, e, name))
    /\ UNCHANGED <<store, Rest>>

GetColor(e, name) ==
    /\ last' = CallRecord("getColor", e, name, NoValue, GetKeyValueColor(store, e, name))
    /\ UNCHANGED <<store, Rest>>

SetValue(e, name, value) ==
    LET w == SetKeyValue(store, e, name, value)
    IN  /\ last' = CallRecord("setValue", e, name, Val("str", value), w)
        /\ store' = w.store
        /\ UNCHANGED Rest

SetColor(e, name, c) ==
    LET w == SetKeyValueColor(store, e, name, c)
    IN  /\ last' = CallRecord("setColor", e, name, Val("Color", c), w)
        /\ store' = w.store
        /\ UNCHANGED Rest

Next ==
    \E e \in Entities, name \in Names :
        \/ GetString(e, name)
        \/ GetInt(e, name)
        \/ GetFloat(e, name)
        \/ GetBool(e, name)
        \/ GetVector(e, name)
        \/ GetColor(e, name)
        \/ \E value \in WriteVals : SetValue(e, name, value)
        \/ \E c \in Colors : SetColor(e, name, c)

Spec == Init /\ [][Next]_vars

-----------------------------------------------------------------------------
(* Claims about the key-value accessors, checked under Spec *)

Present(e, name) == name \in Schema(ClassOf(e))

Getters == {"getString", "getInt", "getFloat", "getBool", "getColor", "getVector3"}

FieldNotFoundError(e, name) == [kind |-> "NameError", name |-> name, cls |-> ClassOf(e)]

EngineReportedFailure(rec) == \E i \in 1..Len(rec.calls) : ~rec.calls[i].ret

\* The text the engine hands back for a field, as the accessors read it.
StringForm(st, e, name) ==
    BufText(EngineGetKeyValue(st, e, name, MAX_KEY_VALUE_LENGTH).buf)

\* C1: a getter called for a field the engine reports absent fails with
\* FieldNotFoundError (a NameError naming the field and the schema class) and
\* returns no value; this holds for getString, getInt, getFloat, getBool,
\* getColor and getVector3.
C1_AbsentFieldRaises ==
    (last.op \in Getters /\ (EngineReportedFailure(last) \/ ~Present(last.ent, last.name)))
        => /\ last.err = FieldNotFoundError(last.ent, last.name)
           /\ last.val.t = "none"
           /\ EngineReportedFailure(last)

C1_Witness ==
    /\ last.op = "getColor"
    /\ ~Present(last.ent, last.name)
    /\ EngineReportedFailure(last)
    /\ last.err.kind = "NameError"

\* C2: setValue calls the engine's setter exactly once with the given entity,
\* name and value; it fails with FieldNotFoundError exactly when the engine's
\* setter reports the field absent from the schema and completes without
\* error otherwise; setColor fails the same way.
C2_SetValueDelegatesOnce ==
    last.op \in {"setValue", "setColor"}
        => /\ Len(last.calls) = 1
           /\ last.calls[1].fn = "SetKeyValue"
           /\ last.calls[1].ent = last.ent
           /\ last.calls[1].name = last.name
           /\ last.op = "setValue" => last.calls[1].value = last.arg
           /\ last.calls[1].ret <=> Present(last.ent, last.name)
           /\ last.calls[1].ret => (last.err = NoError /\ last.val.t = "None")
           /\ ~last.calls[1].ret
                => (last.err = FieldNotFoundError(last.ent, last.name)
                    /\ last.val.t = "none")

C2_Witness ==
    /\ last.op = "setValue"
    /\ ~Present(last.ent, last.name)
    /\ ~last.calls[1].ret
    /\ last.err.kind = "NameError"

\* C3: for a field present in the schema, getBool is true exactly when
\* getString equals "1"; for any other stored text ("0", "", "true", "1 ",
\* "01") it returns false and does not fail.
C3_BoolIffOne ==
    (last.op = "getBool" /\ Present(last.ent, last.name))
        => /\ last.err = NoError
           /\ last.val.t = "bool"
           /\ last.val.v <=> (GetKeyValueString(store, last.ent, last.name).val.v = T_1)

C3_Witness ==
    /\ last.op = "getBool"
    /\ Present(last.ent, last.name)
    /\ GetKeyValueString(store, last.ent, last.name).val.v = T_1sp
    /\ last.val = Val("bool", FALSE)

\* A raised error that tells of a badly formed text.
IsFormatError(err) == err.kind \in {"ValueError", "IndexError"}

\* Exactly four whitespace-separated integer tokens, each in 0..255.
FourColorTokens(text) ==
    LET toks == Tokens(text, <<>>)
    IN  /\ Len(toks) = 4
        /\ \A i \in 1..4 : PyInt(toks[i]).ok /\ PyInt(toks[i]).v \in 0..255

\* C4: getColor returns (r, g, b, a) when the string form is exactly four
\* whitespace-separated integer tokens each in 0..255, and fails with
\* FormatError for every other string form (fewer or more than four tokens, a
\* non-integer token, a token outside 0..255).
C4_GetColorStrict ==
    (last.op = "getColor" /\ Present(last.ent, last.name))
        => LET text == GetKeyValueString(store, last.ent, last.name).val.v
               toks == Tokens(text, <<>>)
           IN  IF FourColorTokens(text)
               THEN /\ last.err = NoError
                    /\ last.val = Val("Color", [i \in 1..4 |-> PyInt(toks[i]).v])
               ELSE IsFormatError(last.err)

-----------------------------------------------------------------------------
(* A script that reads a field, writes the text back and reads it again *)

\* The texts the fields may hold when the round trip starts.
RtSamples == {T_1, T_empty, T_color4, T_long}

InitRoundTrip ==
    /\ \E a \in RtSamples, b \in RtSamples, c \in RtSamples :
           store = InitialStore(a, b, c)
    /\ last = NoCall
    /\ pc = "idle"
    /\ first = NoCall
    /\ snap = UniformStore(T_empty)
    /\ variant = IdleVariant
    /\ table = IdleTable

\* s = getString(entity, f)
RtRead(e, name) ==
    /\ pc = "idle"
    /\ last' = CallRecord("getString", e, name, NoValue, GetKeyValueString(store, e, name))
    /\ first' = last'
    /\ pc' = IF last'.err = NoError THEN "read" ELSE "failed"
    /\ UNCHANGED <<store, snap, variant, table>>

\* setValue(entity, f, s)
RtWrite ==
    /\ pc = "read"
    /\ LET w == SetKeyValue(store, first.ent, first.name, first.val.v)
       IN  /\ last' = CallRecord("setValue", first.ent, first.name, first.val, w)
           /\ store' = w.store
    /\ snap' = store
    /\ pc' = "written"
    /\ UNCHANGED <<first, variant, table>>

\* getString(entity, f) again
RtReread ==
    /\ pc = "written"
    /\ last' = CallRecord("getString", first.ent, first.name, NoValue,
                          GetKeyValueString(store, first.ent, first.name))
    /\ pc' = "reread"
    /\ UNCHANGED <<store, first, snap, variant, table>>

NextRoundTrip ==
    \/ \E e \in Entities, name \in Names : RtRead(e, name)
    \/ RtWrite
    \/ RtReread

SpecRoundTrip == InitRoundTrip /\ [][NextRoundTrip]_vars

\* C9: for a field present in the schema (the field "model" included),
\* s = getString, then setValue(s), then getString returns s again, and no
\* other field changes.
C9_RoundTrip ==
    /\ (pc = "read" \/ pc = "failed") => (pc = "read" <=> Present(first.ent, first.name))
    /\ pc \in {"written", "reread"}
         => /\ last.err = NoError
            /\ \A e \in Entities : \A n \in Schema(ClassOf(e)) :
                   <<e, n>> # <<first.ent, first.name>>
                       => FieldText(store, e, n) = FieldText(snap, e, n)
    /\ pc = "reread" => last.val = first.val

C9_Witness ==
    /\ pc = "reread"
    /\ first.name = "model"
    /\ first.val = Val("str", T_color4)
    /\ last.val = Val("str", T_color4)

\* The round trip through a text longer than the key-value buffer.
C9_WitnessLong ==
    /\ pc = "reread"
    /\ first.name = "targetname"
    /\ FieldText(snap, first.ent, first.name) = T_long
    /\ Len(last.val.v) = MAX_KEY_VALUE_LENGTH - 1

-----------------------------------------------------------------------------
(* A script that writes a colour and reads it back *)

\* The values a colour component takes.
ColorVals == {0, 9, 10, 100, 255}

ColorArgs == {<<r, g, b, a>> : r \in ColorVals, g \in ColorVals, b \in ColorVals, a \in ColorVals}

InitColor ==
    /\ store = UniformStore(T_empty)
    /\ last = NoCall
    /\ pc = "idle"
    /\ first = NoCall
    /\ snap = UniformStore(T_empty)
    /\ variant = IdleVariant
    /\ table = IdleTable

\* setColor(entity, f, (r, g, b, a))
ColSet(e, name, c) ==
    /\ pc = "idle"
    /\ LET w == SetKeyValueColor(store, e, name, c)
       IN  /\ last' = CallRecord("setColor", e, name, Val("Color", c), w)
           /\ store' = w.store
    /\ first' = last'
    /\ pc' = IF last'.err = NoError THEN "written" ELSE "failed"
    /\ UNCHANGED <<snap, variant, table>>

\* getColor(entity, f)
ColGet ==
    /\ pc = "written"
    /\ last' = CallRecord("getColor", first.ent, first.name, NoValue,
                          GetKeyValueColor(store, first.ent, first.name))
    /\ pc' = "reread"
    /\ UNCHANGED <<store, first, snap, variant, table>>

NextColor ==
    \/ \E e \in Entities, name \in Names, c \in ColorArgs : ColSet(e, name, c)
    \/ ColGet

SpecColor == InitColor /\ [][NextColor]_vars

\* C10: for every colour with components in 0..255 and every present field,
\* setColor writes the text "r g b a" in full (the 16-byte buffer never cuts
\* it), so that the getColor that follows returns the same colour.
C10_ColorRoundTrip ==
    /\ pc \in {"written", "reread"}
         => /\ Present(first.ent, first.name)
            /\ first.calls[1].value = Val("str", FormatColor(first.arg.v))
            /\ GetKeyValueString(store, first.ent, first.name).val.v
                   = FormatColor(first.arg.v)
    /\ pc = "reread" => (last.err = NoError /\ last.val = first.arg)

C10_Witness ==
    /\ pc = "reread"
    /\ first.arg = Val("Color", <<255, 255, 255, 255>>)
    /\ Len(first.calls[1].value.v) = ColorBufSize - 1
    /\ last.val = Val("Color", <<255, 255, 255, 255>>)

-----------------------------------------------------------------------------
(* SendPropVariant: the bindings of DVariant *)

\* What SendPropVariant.def(...) binds each method name to: the function of
\* SendPropVariantExt, the type tag it is instantiated for and the member of
\* the union it reads or writes.

\* Mutant of Bindings: get_int bound to the Float instantiation.
Bindings_GetIntAsFloat ==
    [get_float  |-> [fn |-> "get", type |-> "Float", member |-> "m_Float"],
     get_int    |-> [fn |-> "get", type |-> "Float", member |-> "m_Float"],
     get_string |-> [fn |-> "get", type |-> "String", member |-> "m_pString"],
     get_data   |-> [fn |-> "get", type |-> "DataTable", member |-> "m_pData"],
     get_vector |-> [fn |-> "get", type |-> "Vector", member |-> "m_Vector"],
     set_float  |-> [fn |-> "get", type |-> "Float", member |-> "m_Float"],
     set_string |-> [fn |-> "set", type |-> "String", member |-> "m_pString"],
     set_int    |-> [fn |-> "set", type |-> "Int", member |-> "m_Int"],
     set_data   |-> [fn |-> "set", type |-> "DataTable", member |-> "m_pData"],
     set_vector |-> [fn |-> "set", type |-> "Vector", member |-> "m_Vector"]]

Bindings ==
    [get_float  |-> [fn |-> "get", type |-> "Float", member |-> "m_Float"],
     get_int    |-> [fn |-> "get", type |-> "Int", member |-> "m_Int"],
     get_string |-> [fn |-> "get", type |-> "String", member |-> "m_pString"],
     get_data   |-> [fn |-> "get", type |-> "DataTable", member |-> "m_pData"],
     get_vector |-> [fn |-> "get", type |-> "Vector", member |-> "m_Vector"],
     set_float  |-> [fn |-> "get", type |-> "Float", member |-> "m_Float"],
     set_string |-> [fn |-> "set", type |-> "String", member |-> "m_pString"],
     set_int    |-> [fn |-> "set", type |-> "Int", member |-> "m_Int"],
     set_data   |-> [fn |-> "set", type |-> "DataTable", member |-> "m_pData"],
     set_vector |-> [fn |-> "set", type |-> "Vector", member |-> "m_Vector"]]

Methods == DOMAIN Bindings

\* The bits of one member of the union read as another member.
Reinterpreted == [m |-> 0, e |-> 0]

\* SendPropVariantExt::get_typed_value<type, T, member> (and get_string,
\* get_data, get_vector): the payload, after the tag check.
get_typed_value(v, type, member) ==
    IF v.m_Type # type
    THEN [err |-> PyRaise("TypeError").err, val |-> NoValue, variant |-> v]
    ELSE [err |-> NoError,
          val |-> Val(type, IF v.member = member THEN v.v ELSE Reinterpreted),
          variant |-> v]

\* SendPropVariantExt::set_typed_value<type, T, member> (and set_string,
\* set_data, set_vector): stores the value and sets the tag.
set_typed_value(v, type, member, value) ==
    [err |-> NoError, val |-> PyNone,
     variant |-> [m_Type |-> type, member |-> member, v |-> value]]

\* Boost.Python's call of a bound function: the arguments must match the
\* function's parameters in number and type, or the call is refused with
\* ArgumentError before the function runs.
Invoke(v, method, args) ==
    LET b == Bindings[method]
    IN  IF b.fn = "get"
        THEN IF args = <<>>
             THEN get_typed_value(v, b.type, b.member)
             ELSE [err |-> PyRaise("ArgumentError").err, val |-> NoValue, variant |-> v]
        ELSE IF Len(args) = 1 /\ args[1].t = b.type
             THEN set_typed_value(v, b.type, b.member, args[1].v)
             ELSE [err |-> PyRaise("ArgumentError").err, val |-> NoValue, variant |-> v]

MemberOf(type) ==
    CASE type = "Float" -> "m_Float" [] type = "Int" -> "m_Int"
      [] type = "String" -> "m_pString" [] type = "DataTable" -> "m_pData"
      [] type = "Vector" -> "m_Vector"

\* The typed values scripts pass and variants hold.
ArgSamples ==
    {Val("Float", [m |-> 15, e |-> 1]), Val("Float", [m |-> 0, e |-> 0]),
     Val("Int", 7), Val("Int", 0),
     Val("String", <<"a">>),
     Val("DataTable", 4096),
     Val("Vector", <<[m |-> 1, e |-> 0], [m |-> 2, e |-> 0], [m |-> 3, e |-> 0]>>)}

VariantOf(a) == [m_Type |-> a.t, member |-> MemberOf(a.t), v |-> a.v]

InitVariant ==
    /\ \E a \in ArgSamples : variant = VariantOf(a)
    /\ snap = variant
    /\ store = UniformStore(T_empty)
    /\ last = NoCall
    /\ pc = "idle"
    /\ first = NoCall
    /\ table = IdleTable

\* variant.method(*args)
VarCall(method, args) ==
    LET r == Invoke(variant, method, args)
    IN  /\ last' = [op |-> method, ent |-> "", name |-> "",
                    arg |-> IF args = <<>> THEN NoValue ELSE args[1],
                    calls |-> <<>>, err |-> r.err, val |-> r.val]
        /\ variant' = r.variant
        /\ snap' = variant
        /\ UNCHANGED <<store, pc, first, table>>

NextVariant ==
    \E method \in Methods, args \in {<<>>} \cup {<<a>> : a \in ArgSamples} :
        VarCall(method, args)

SpecVariant == InitVariant /\ [][NextVariant]_vars

Setters == {"set_float", "set_int", "set_string", "set_data", "set_vector"}

SetterType(m) ==
    CASE m = "set_float" -> "Float" [] m = "set_int" -> "Int"
      [] m = "set_string" -> "String" [] m = "set_data" -> "DataTable"
      [] m = "set_vector" -> "Vector"

VariantGetters == {"get_float", "get_int", "get_string", "get_data", "get_vector"}

GetterType(m) ==
    CASE m = "get_float" -> "Float" [] m = "get_int" -> "Int"
      [] m = "get_string" -> "String" [] m = "get_data" -> "DataTable"
      [] m = "get_vector" -> "Vector"

GetterOf(type) ==
    CASE type = "Float" -> "get_float" [] type = "Int" -> "get_int"
      [] type = "String" -> "get_string" [] type = "DataTable" -> "get_data"
      [] type = "Vector" -> "get_vector"

\* C6: every typed setter (set_float, set_int, set_string, set_data,
\* set_vector), called with a value of its type, stores the value and sets the
\* variant's tag to the setter's type from any prior state, so that the getter
\* of that type then returns the value.
C6_SetterStoresAndTags ==
    (last.op \in Setters /\ last.arg.t = SetterType(last.op))
        => /\ last.err = NoError
           /\ variant.m_Type = SetterType(last.op)
           /\ variant.v = last.arg.v
           /\ Invoke(variant, GetterOf(SetterType(last.op)), <<>>).val = last.arg

C7_WitnessFloat ==
    /\ last.op = "get_float"
    /\ last.arg.t = "none"
    /\ snap.m_Type = "Float"
    /\ snap.v = [m |-> 15, e |-> 1]
    /\ variant = snap
    /\ last.val = Val("Float", [m |-> 15, e |-> 1])

-----------------------------------------------------------------------------
(* SendTable: the Field Descriptor Table *)

PropNames == {"m_vecOrigin", "m_iHealth"}

Tables ==
    {[m_pProps |-> p, m_nProps |-> Len(p)] :
        p \in UNION {[1..n -> PropNames] : n \in 0..MaxProps}}

\* The indexes scripts pass.
Indexes == (0 - 2)..(MaxProps + 1)

InRange(t, i) == i >= 0 /\ i < t.m_nProps

\* SendTable::GetNumProps() and the member m_nProps.
GetNumProps(t) == t.m_nProps

\* SendTable::GetProp(i), bound as get_prop: &m_pProps[i], with the index
\* checked by a debug-build assertion only.  Outside the array the outcomes
\* are a reference to whatever lies there or the assertion stopping the
\* process.
GetProp(t, i) ==
    IF InRange(t, i)
    THEN {Return(Val("SendProp", t.m_pProps[i + 1]))}
    ELSE {Return(Val("SendProp", "<out of bounds>")),
          [err |-> PyRaise("abort").err, val |-> NoValue]}

\* SendTableSharedExt::__getitem__: the bounds-checked lookup.
SendTableSharedExt_getitem(t, i) ==
    IF ~InRange(t, i)
    THEN {[err |-> PyRaise("IndexError").err, val |-> NoValue]}
    ELSE GetProp(t, i)

InitTable ==
    /\ table \in Tables
    /\ store = UniformStore(T_empty)
    /\ last = NoCall
    /\ pc = "idle"
    /\ first = NoCall
    /\ snap = UniformStore(T_empty)
    /\ variant = IdleVariant

TableCall(op, i, r) ==
    /\ last' = [op |-> op, ent |-> "", name |-> "", arg |-> Val("int", i),
                calls |-> <<>>, err |-> r.err, val |-> r.val]
    /\ UNCHANGED <<store, pc, first, snap, variant, table>>

\* table.get_prop(i)
TblGetProp(i) == \E r \in GetProp(table, i) : TableCall("get_prop", i, r)

\* table[i]
TblGetItem(i) == \E r \in SendTableSharedExt_getitem(table, i) : TableCall("__getitem__", i, r)

\* table.length
TblLengthAttr == TableCall("length", 0, Return(Val("int", table.m_nProps)))

\* table.get_length()
TblGetLength == TableCall("get_length", 0, Return(Val("int", GetNumProps(table))))

\* len(table)
TblLen == TableCall("__len__", 0, Return(Val("int", GetNumProps(table))))

NextTable ==
    \/ \E i \in Indexes : TblGetProp(i)
    \/ \E i \in Indexes : TblGetItem(i)
    \/ TblLengthAttr
    \/ TblGetLength
    \/ TblLen

SpecTable == InitTable /\ [][NextTable]_vars

\* C8: positional lookup is bounds-checked on both get_prop(index) and
\* table[index]: outside [0, length) it fails with IndexError and returns no
\* descriptor, inside it returns the descriptor at that position; length is
\* the number the length attribute, get_length() and len(table) report.
C8_LookupBoundsChecked ==
    /\ last.op \in {"get_prop", "__getitem__"}
         => IF last.arg.v >= 0 /\ last.arg.v < Len(table.m_pProps)
            THEN last.err = NoError
                 /\ last.val = Val("SendProp", table.m_pProps[last.arg.v + 1])
            ELSE last.err.kind = "IndexError" /\ last.val.t = "none"
    /\ last.op \in {"length", "get_length", "__len__"}
         => last.val = Val("int", Len(table.m_pProps))

====
